---- MODULE Spec2Model ----
(***************************************************************************)
(* BridgeTool (libwifi_system_iface/bridge_tool.cpp): six operations that  *)
(* drive the kernel's legacy bridge ioctl interface.  The program keeps no *)
(* state of its own between calls; the state is the kernel's device table, *)
(* the bridges' port lists, the process's descriptor table, and each       *)
(* caller's position and locals inside the operation it is running.        *)
(*                                                                         *)
(* A step of a caller is one system call of the code together with the     *)
(* local computation that leads to it: socket(), if_nametoindex(), one     *)
(* ioctl(), one if_indextoname() of the result loop.  The return of an      *)
(* operation runs the destructor of its unique_fd.                          *)
(***************************************************************************)
EXTENDS Integers, Sequences, FiniteSets, TLC

\* The capacity of the enumeration buffers.  The source sets it to 1024; the model
\* runs with a smaller capacity, and every property is stated for MAX_PORTS.
MAX_PORTS == 8

IFNAMSIZ == 16

\* sizeof(int) of the build: memset() counts bytes, ifindices[] holds ints.
SizeofInt == 4

\* Number of bridges the callers may create in one run (caps the ifindex counter).
MaxCreate == 1

\* Descriptors the process may hold open when its limit is not exhausted.
FdLimit == 2

Callers == {"c1", "c2"}

---------------------------------------------------------------------------
(* Names.  A name is the sequence of its characters, so that the 16-byte   *)
(* name field of the kernel interface can cut it.                          *)

br0 == <<"b", "r", "0">>

eth0 == <<"e", "t", "h", "0">>

wlan9 == <<"w", "l", "a", "n", "9">>

\* 16 characters: one more than the name field holds.
long16 == <<"b", "r", "i", "d", "g", "e", "_", "n", "a", "m", "e", "_", "l", "o", "n", "g">>

\* if_indextoname() returning NULL.
NoName == <<>>

Min(a, b) == IF a < b THEN a ELSE b

\* strlcpy(dst, src, IFNAMSIZ), and the kernel's copy of IFNAMSIZ bytes followed
\* by buf[IFNAMSIZ - 1] = 0: at most IFNAMSIZ - 1 characters survive.
Truncate(name) == SubSeq(name, 1, Min(Len(name), IFNAMSIZ - 1))

ValidName(name) == name # <<>> /\ Len(name) <= IFNAMSIZ - 1

DigitChars == <<"0", "1", "2", "3", "4", "5", "6", "7", "8", "9">>

RECURSIVE Digits(_)
Digits(n) == IF n < 10 THEN <<DigitChars[n + 1]>>
             ELSE Append(Digits(n \div 10), DigitChars[(n % 10) + 1])

---------------------------------------------------------------------------
VARIABLES
  \* the kernel
  devs,          \* ifindex -> [name, bridge, live]: every device registered in the run
  ports,         \* set of [br, port_no, dev]: the bridges' ports
  bulk,          \* number of bridges that exist before the run and outlast it
  br_ioctl_hook, \* the bridge module is present
  rlimit,        \* descriptors the process may hold open
  fdtable,       \* the open control sockets
  \* each caller
  solo,          \* the one caller of a sequential run, or "" when all callers run
  pc, op, br_name, if_name, sock, ifr_ifindex, ifindices, num, i, out, ret,
  \* history
  out0,          \* the vector as the caller passed it
  kerr,          \* a kernel request of the running call returned an error
  nreq,          \* bridge requests the running call has issued
  gone,          \* enumerated indices whose device went away before their turn in the loop
  hist           \* the latest calls of the caller of a sequential run, see Push

kvars == <<devs, ports, bulk, br_ioctl_hook, rlimit>>

\* The bridge names and interface names the callers pass: br0 and, in the
\* sequential runs, a name longer than the name field; eth0, which exists, and
\* wlan9, which does not.
BrNames == IF solo = "" THEN {br0} ELSE {br0, long16}

IfNames == {eth0, wlan9}

\* What a caller-supplied vector may hold before the call.
Vectors == IF solo = "" THEN {<<>>} ELSE {<<>>, <<wlan9>>}

vars == <<devs, ports, bulk, br_ioctl_hook, rlimit, fdtable, solo, pc, op, br_name,
          if_name, sock, ifr_ifindex, ifindices, num, i, out, ret, out0, kerr, nreq,
          gone, hist>>

---------------------------------------------------------------------------
(* The kernel's device table.  Index 1 is eth0; the pre-existing bridges   *)
(* follow; the bridges the callers create get the next free index, which   *)
(* is never reused.                                                        *)

EthIndex == 1

BulkIndices == (EthIndex + 1)..(EthIndex + bulk)

IsBulk(idx) == idx \in BulkIndices

BulkName(idx) == <<"v">> \o Digits(idx)

\* dev_new_index(): eth0, the pre-existing bridges and every bridge created so far
\* hold the indices below it.
NextIndex == bulk + Cardinality(DOMAIN devs) + 1

Live(idx) == IsBulk(idx) \/ (idx \in DOMAIN devs /\ devs[idx].live)

IsBridge(idx) == IsBulk(idx) \/ (idx \in DOMAIN devs /\ devs[idx].live /\ devs[idx].bridge)

\* The name a device has, or had: for the properties only.
EverName(idx) == IF idx \in DOMAIN devs THEN devs[idx].name ELSE BulkName(idx)

\* __dev_get_by_name(): the index of the live device of that name, 0 if none.
dev_get_by_name(name) ==
  LET dyn == {x \in DOMAIN devs : devs[x].live /\ devs[x].name = name}
      blk == {x \in BulkIndices : BulkName(x) = name}
  IN  IF dyn \cup blk = {} THEN 0 ELSE CHOOSE x \in dyn \cup blk : TRUE

if_nametoindex(name) == dev_get_by_name(Truncate(name))

if_indextoname(idx) ==
  IF IsBulk(idx) THEN BulkName(idx)
  ELSE IF idx \in DOMAIN devs /\ devs[idx].live THEN devs[idx].name
  ELSE NoName

---------------------------------------------------------------------------
(* The kernel's side of the requests.  Each takes the request's payload    *)
(* and yields the return code with the device table and port lists after   *)
(* it.  A request fails for the reasons the bridge code gives (no such     *)
(* device, name in use, not a port, ...), when the bridge module is absent *)
(* and when the descriptor is not an open one.                             *)

Refused == [rc |-> -1, devs |-> devs, ports |-> ports]

Created == Cardinality({x \in DOMAIN devs : devs[x].bridge})

\* ioctl(SIOCBRADDBR, name): br_add_bridge() on the 16-byte copy of the name.
SIOCBRADDBR(fd, name) ==
  LET buf == Truncate(name) IN
  IF fd \notin fdtable \/ ~br_ioctl_hook \/ buf = <<>> \/ dev_get_by_name(buf) # 0
     \/ Created >= MaxCreate
  THEN Refused
  ELSE [rc |-> 0,
        devs |-> devs @@ (NextIndex :> [name |-> buf, bridge |-> TRUE, live |-> TRUE]),
        ports |-> ports]

\* ioctl(SIOCBRDELBR, name): br_del_bridge() unregisters the bridge and frees its ports.
SIOCBRDELBR(fd, name) ==
  LET idx == dev_get_by_name(Truncate(name)) IN
  IF fd \notin fdtable \/ ~br_ioctl_hook \/ idx = 0 \/ ~IsBridge(idx)
  THEN Refused
  ELSE [rc |-> 0,
        devs |-> [devs EXCEPT ![idx].live = FALSE],
        ports |-> {q \in ports : q.br # idx}]

\* find_portno(): the lowest free port number of the bridge, from 1.
find_portno(br) ==
  CHOOSE n \in 1..(Cardinality(ports) + 1) :
    /\ ~\E q \in ports : q.br = br /\ q.port_no = n
    /\ \A m \in 1..(n - 1) : \E q \in ports : q.br = br /\ q.port_no = m

\* ioctl(SIOCBRADDIF, ifr): br_add_if() on the bridge ifr_name names.
SIOCBRADDIF(fd, name, ifindex) ==
  LET br == dev_get_by_name(name) IN
  IF fd \notin fdtable \/ br = 0 \/ ~IsBridge(br) \/ ~Live(ifindex) \/ IsBridge(ifindex)
     \/ \E q \in ports : q.dev = ifindex
  THEN Refused
  ELSE [rc |-> 0, devs |-> devs,
        ports |-> ports \cup {[br |-> br, port_no |-> find_portno(br), dev |-> ifindex]}]

\* ioctl(SIOCBRDELIF, ifr): br_del_if().
SIOCBRDELIF(fd, name, ifindex) ==
  LET br == dev_get_by_name(name) IN
  IF fd \notin fdtable \/ br = 0 \/ ~IsBridge(br)
     \/ ~\E q \in ports : q.dev = ifindex /\ q.br = br
  THEN Refused
  ELSE [rc |-> 0, devs |-> devs,
        ports |-> {q \in ports : q.dev # ifindex}]

\* The created bridges that are live, in registration order.
RECURSIVE DynBridges(_)
DynBridges(from) ==
  IF from >= NextIndex THEN <<>>
  ELSE IF devs[from].live /\ devs[from].bridge THEN <<from>> \o DynBridges(from + 1)
  ELSE DynBridges(from + 1)

NumBridges == bulk + Len(DynBridges(bulk + 2))

\* ioctl(SIOCGIFBR, {BRCTL_GET_BRIDGES, buf, n}): get_bridge_ifindices() walks the
\* device list, writes the first n bridge indices to buf and returns how many it
\* wrote; the slots after them are left as they were.
BRCTL_GET_BRIDGES(fd, buf, n) ==
  IF fd \notin fdtable \/ ~br_ioctl_hook
  THEN [rc |-> -1, buf |-> buf]
  ELSE LET dyn == DynBridges(bulk + 2)
           cnt == Min(bulk + Len(dyn), n)
       IN  [rc |-> cnt,
            buf |-> [k \in 1..Len(buf) |->
                       IF k > cnt THEN buf[k]
                       ELSE IF k <= bulk THEN k + 1
                       ELSE dyn[k - bulk]]]

\* ioctl(SIOCDEVPRIVATE, {BRCTL_GET_PORT_LIST, buf, n}) on the bridge ifr_name
\* names: get_port_ifindices() fills a zeroed array of n slots, slot port_no with
\* the port's ifindex, and all n slots are copied out.
BRCTL_GET_PORT_LIST(fd, name, buf, n) ==
  LET br == dev_get_by_name(name) IN
  IF fd \notin fdtable \/ br = 0 \/ ~IsBridge(br)
  THEN [rc |-> -1, buf |-> buf]
  ELSE [rc |-> n,
        buf |-> [k \in 1..Len(buf) |->
                   IF k > n THEN buf[k]
                   ELSE IF \E q \in ports : q.br = br /\ q.port_no = k - 1
                        THEN (CHOOSE q \in ports : q.br = br /\ q.port_no = k - 1).dev
                        ELSE 0]]

---------------------------------------------------------------------------
(* The callers' side.                                                      *)

\* socket(PF_INET, SOCK_DGRAM | SOCK_CLOEXEC, 0): the lowest free descriptor, or
\* -1 when the process may open no more.
socket ==
  IF Cardinality(fdtable) >= rlimit THEN -1
  ELSE CHOOSE fd \in 3..(3 + Cardinality(fdtable)) :
         fd \notin fdtable /\ \A g \in 3..(fd - 1) : g \in fdtable

\* A descriptor kept as a plain int that no path closes.
unique_fd_leak(fds, fd) == fds

\* ~unique_fd(): closes the descriptor it holds, if it holds one.
unique_fd_dtor(fds, fd) == fds \ {fd}

\* int ifindices[MAX_PORTS] as declared: whatever the stack holds.
StackGarbage == {0, EthIndex}

\* The contents the array may have when the function is entered.
Declared == {[k \in 1..MAX_PORTS |-> g] : g \in StackGarbage}

\* memset(buf, 0, n): n bytes, which are n / sizeof(int) slots of an int array.
memset(buf, n) == [k \in 1..Len(buf) |-> IF k <= n \div SizeofInt THEN 0 ELSE buf[k]]

\* The test written as > 0: an error, which is -1, passes for success.
IoctlFailed_Positive(rc) == rc > 0

\* The test that ends createBridge, deleteBridge, addIfaceToBridge and
\* removeIfaceFromBridge in failure: ioctl(...) != 0.
IoctlFailed(rc) == rc # 0

\* The test of the other operations, != 0, copied to an ioctl that returns a count.
PortListFailed_NonZero(rc) == rc # 0

\* The test of GetInterfacesInBridge: ioctl(...) < 0.
PortListFailed(rc) == rc < 0

\* The test left out: the call goes on with index 0.
NotFound_Never(idx) == FALSE

\* The test made of the resolved index: ifr.ifr_ifindex == 0.
NotFound(idx) == idx = 0

\* The test without the result of if_indextoname(): the zeroed name is pushed.
Skip_ZeroOnly(idx) == idx = 0

\* The loop's test of a slot: ifindices[i] == 0 || !if_indextoname(ifindices[i], name).
Skip(idx) == idx = 0 \/ if_indextoname(idx) = NoName

\* The vector assigned instead of appended to.
push_back_assign(vec, names) == names

\* vector::push_back of the names the loop resolves.
push_back(vec, names) == vec \o names

\* Iterations a..b-1 of the result loop on vector vec.
Iterate(vec, buf, a, b) ==
  LET kept == SelectSeq([k \in 1..(b - a) |-> buf[a + k]], LAMBDA x : ~Skip(x))
  IN  push_back(vec, [k \in 1..Len(kept) |-> if_indextoname(kept[k])])

\* One slot less than the array has.
Capacity_Short == MAX_PORTS - 1

\* args[2] = MAX_PORTS: the capacity both enumeration requests are given.
Capacity == MAX_PORTS

\* The loop bound off by one: i < num - 1.
BridgesLimit_OffByOne(n) == n - 1

\* The bound of GetBridges' loop (i < num) and of GetInterfacesInBridge's
\* (i < MAX_PORTS).
BridgesLimit(n) == n

PortsLimit == MAX_PORTS

\* The first slot from a before b that holds a nonzero index; b if none does.  A
\* step of the loop ends at the if_indextoname() of such a slot: the iterations
\* over zero slots make no system call.
NextStop(buf, a, b) ==
  LET s == {k \in a..(b - 1) : buf[k + 1] # 0}
  IN  IF s = {} THEN b ELSE CHOOSE k \in s : \A m \in s : k <= m

Limit(p) == IF pc[p] = "bridges_loop" THEN BridgesLimit(num[p]) ELSE PortsLimit

\* The indices a caller has enumerated and not yet resolved.
Pending(p) ==
  IF pc[p] \in {"bridges_loop", "ports_loop"}
  THEN {ifindices[p][k + 1] : k \in i[p]..(Limit(p) - 1)} \ {0}
  ELSE {}

Call(o, b, f, r) == [op |-> o, br |-> b, ifn |-> f, ret |-> r]

\* The log of a sequential run keeps the call that returns and, as far as the
\* properties read them, the calls before it: the call before it when that was a
\* deleteBridge or a call that succeeded in changing the kernel's tables, and
\* before a successful addIfaceToBridge the successful createBridge of its bridge.
Noted(c) ==
  \/ c.op = "deleteBridge"
  \/ c.ret /\ c.op \in {"createBridge", "addIfaceToBridge", "removeIfaceFromBridge"}

Push(h, c) ==
  LET n == Len(h)
      before == IF n = 0 \/ ~Noted(h[n]) THEN <<>>
                ELSE IF /\ n >= 2 /\ h[n].op = "addIfaceToBridge"
                        /\ h[n - 1].op = "createBridge" /\ h[n - 1].br = h[n].br
                     THEN <<h[n - 1], h[n]>>
                     ELSE <<h[n]>>
  IN  before \o <<c>>

\* A caller may start a call when it is not inside one.
CanCall(p) == pc[p] = "idle" /\ solo \in {"", p}

\* What every call sets when it starts.
Begin(p, o, b, f, v, idx, buf) ==
  /\ CanCall(p)
  /\ ifr_ifindex' = [ifr_ifindex EXCEPT ![p] = idx]
  /\ ifindices' = [ifindices EXCEPT ![p] = buf]
  /\ op' = [op EXCEPT ![p] = o]
  /\ br_name' = [br_name EXCEPT ![p] = b]
  /\ if_name' = [if_name EXCEPT ![p] = f]
  /\ out' = [out EXCEPT ![p] = v]
  /\ out0' = [out0 EXCEPT ![p] = v]
  /\ kerr' = [kerr EXCEPT ![p] = FALSE]
  /\ nreq' = [nreq EXCEPT ![p] = 0]
  /\ gone' = [gone EXCEPT ![p] = {}]
  /\ num' = [num EXCEPT ![p] = 0]
  /\ i' = [i EXCEPT ![p] = 0]

\* What every return does: the result, and the destructor of the call's unique_fd.
Return(p, c) ==
  /\ ret' = [ret EXCEPT ![p] = c.ret]
  /\ pc' = [pc EXCEPT ![p] = "idle"]
  /\ hist' = [hist EXCEPT ![p] = IF solo = p THEN Push(hist[p], c) ELSE <<>>]
  /\ fdtable' = unique_fd_dtor(fdtable, sock[p])
  /\ sock' = [sock EXCEPT ![p] = -1]

\* base::unique_fd sock(socket(...)).
Open(p) ==
  /\ sock' = [sock EXCEPT ![p] = socket]
  /\ fdtable' = fdtable \cup ({socket} \ {-1})

\* A step that leaves the caller inside its call, at position l.
Goto(p, l) ==
  /\ pc' = [pc EXCEPT ![p] = l]
  /\ ret' = [ret EXCEPT ![p] = FALSE]
  /\ hist' = hist

\* The request a call issues, as the history sees it.
Issued(p, rc) ==
  /\ kerr' = [kerr EXCEPT ![p] = kerr[p] \/ rc < 0]
  /\ nreq' = [nreq EXCEPT ![p] = nreq[p] + 1]

\* A device that goes away is noted for the callers that have enumerated it.
Vanish(idx) ==
  gone' = [q \in Callers |-> IF idx \in Pending(q) THEN gone[q] \cup {idx} ELSE gone[q]]

---------------------------------------------------------------------------
(* createBridge and deleteBridge.                                          *)

createBridge_socket(p, name) ==
  /\ Begin(p, "createBridge", name, <<>>, <<>>, 0, <<>>)
  /\ Open(p)
  /\ Goto(p, "create_ioctl")
  /\ UNCHANGED <<kvars, solo>>

createBridge_ioctl(p) ==
  /\ pc[p] = "create_ioctl"
  /\ LET r == SIOCBRADDBR(sock[p], br_name[p]) IN
       /\ devs' = r.devs
       /\ ports' = r.ports
       /\ Issued(p, r.rc)
       /\ Return(p, Call("createBridge", br_name[p], <<>>, ~IoctlFailed(r.rc)))
  /\ UNCHANGED <<bulk, br_ioctl_hook, rlimit, solo, op, br_name, if_name, ifr_ifindex,
                 ifindices, num, i, out, out0, gone>>

deleteBridge_socket(p, name) ==
  /\ Begin(p, "deleteBridge", name, <<>>, <<>>, 0, <<>>)
  /\ Open(p)
  /\ Goto(p, "delete_ioctl")
  /\ UNCHANGED <<kvars, solo>>

deleteBridge_ioctl(p) ==
  /\ pc[p] = "delete_ioctl"
  /\ LET idx == dev_get_by_name(Truncate(br_name[p]))
         r == SIOCBRDELBR(sock[p], br_name[p])
     IN  /\ devs' = r.devs
         /\ ports' = r.ports
         /\ IF r.rc = 0 THEN Vanish(idx) ELSE gone' = gone
         /\ Issued(p, r.rc)
         /\ Return(p, Call("deleteBridge", br_name[p], <<>>, ~IoctlFailed(r.rc)))
  /\ UNCHANGED <<bulk, br_ioctl_hook, rlimit, solo, op, br_name, if_name, ifr_ifindex,
                 ifindices, num, i, out, out0>>

---------------------------------------------------------------------------
(* addIfaceToBridge and removeIfaceFromBridge.                             *)

\* memset(&ifr), if_nametoindex(), the test of the index and the strlcpy of the
\* bridge name.
Resolve(p, o, br, ifn, l) ==
  /\ Begin(p, o, br, ifn, <<>>, if_nametoindex(ifn), <<>>)
  /\ IF NotFound(if_nametoindex(ifn))
     THEN Return(p, Call(o, br, ifn, FALSE))
     ELSE Goto(p, l) /\ UNCHANGED <<sock, fdtable>>
  /\ UNCHANGED <<kvars, solo>>

addIfaceToBridge_resolve(p, br, ifn) ==
  Resolve(p, "addIfaceToBridge", br, ifn, "add_socket")

addIfaceToBridge_socket(p) ==
  /\ pc[p] = "add_socket"
  /\ Open(p)
  /\ Goto(p, "add_ioctl")
  /\ UNCHANGED <<kvars, solo, op, br_name, if_name, ifr_ifindex, ifindices, num, i, out,
                 out0, kerr, nreq, gone>>

addIfaceToBridge_ioctl(p) ==
  /\ pc[p] = "add_ioctl"
  /\ LET r == SIOCBRADDIF(sock[p], Truncate(br_name[p]), ifr_ifindex[p]) IN
       /\ devs' = r.devs
       /\ ports' = r.ports
       /\ Issued(p, r.rc)
       /\ Return(p, Call("addIfaceToBridge", br_name[p], if_name[p], ~IoctlFailed(r.rc)))
  /\ UNCHANGED <<bulk, br_ioctl_hook, rlimit, solo, op, br_name, if_name, ifr_ifindex,
                 ifindices, num, i, out, out0, gone>>

removeIfaceFromBridge_resolve(p, br, ifn) ==
  Resolve(p, "removeIfaceFromBridge", br, ifn, "remove_socket")

removeIfaceFromBridge_socket(p) ==
  /\ pc[p] = "remove_socket"
  /\ Open(p)
  /\ Goto(p, "remove_ioctl")
  /\ UNCHANGED <<kvars, solo, op, br_name, if_name, ifr_ifindex, ifindices, num, i, out,
                 out0, kerr, nreq, gone>>

removeIfaceFromBridge_ioctl(p) ==
  /\ pc[p] = "remove_ioctl"
  /\ LET r == SIOCBRDELIF(sock[p], Truncate(br_name[p]), ifr_ifindex[p]) IN
       /\ devs' = r.devs
       /\ ports' = r.ports
       /\ Issued(p, r.rc)
       /\ Return(p, Call("removeIfaceFromBridge", br_name[p], if_name[p],
                         ~IoctlFailed(r.rc)))
  /\ UNCHANGED <<bulk, br_ioctl_hook, rlimit, solo, op, br_name, if_name, ifr_ifindex,
                 ifindices, num, i, out, out0, gone>>

---------------------------------------------------------------------------
(* GetBridges and GetInterfacesInBridge.                                   *)

\* socket() and its test; then the declaration of ifindices[] and its memset.
Enumerate(p, o, br, vec, l) ==
  /\ IF socket < 0
     THEN /\ Begin(p, o, br, <<>>, vec, 0, <<>>)
          /\ Return(p, Call(o, br, <<>>, FALSE))
     ELSE /\ \E buf \in Declared : Begin(p, o, br, <<>>, vec, 0, memset(buf, MAX_PORTS))
          /\ Open(p)
          /\ Goto(p, l)
  /\ UNCHANGED <<kvars, solo>>

GetBridges_socket(p, vec) == Enumerate(p, "GetBridges", <<>>, vec, "bridges_ioctl")

\* num = ioctl(sock.get(), SIOCGIFBR, args), then i = 0.
GetBridges_ioctl(p) ==
  /\ pc[p] = "bridges_ioctl"
  /\ LET r == BRCTL_GET_BRIDGES(sock[p], ifindices[p], Capacity) IN
       /\ ifindices' = [ifindices EXCEPT ![p] = r.buf]
       /\ num' = [num EXCEPT ![p] = r.rc]
       /\ Issued(p, r.rc)
  /\ Goto(p, "bridges_loop")
  /\ UNCHANGED <<kvars, fdtable, solo, op, br_name, if_name, sock, ifr_ifindex, i, out,
                 out0, gone>>

\* The iterations of the loop up to the resolution of the next nonzero index.
Loop(p, l, limit) ==
  /\ pc[p] = l
  /\ LET stop == NextStop(ifindices[p], i[p], limit) IN
       /\ stop < limit
       /\ out' = [out EXCEPT ![p] = Iterate(out[p], ifindices[p], i[p], stop + 1)]
       /\ i' = [i EXCEPT ![p] = stop + 1]
  /\ UNCHANGED <<kvars, fdtable, solo, pc, op, br_name, if_name, sock, ifr_ifindex,
                 ifindices, num, ret, out0, kerr, nreq, gone, hist>>

\* The iterations that remain when no nonzero index is left, and return true.
Leave(p, l, limit) ==
  /\ pc[p] = l
  /\ NextStop(ifindices[p], i[p], limit) >= limit
  /\ out' = [out EXCEPT ![p] = Iterate(out[p], ifindices[p], i[p], limit)]
  /\ i' = [i EXCEPT ![p] = IF limit > i[p] THEN limit ELSE i[p]]
  /\ Return(p, Call(op[p], br_name[p], <<>>, TRUE))
  /\ UNCHANGED <<kvars, solo, op, br_name, if_name, ifr_ifindex, ifindices, num, out0,
                 kerr, nreq, gone>>

GetBridges_loop(p) == Loop(p, "bridges_loop", BridgesLimit(num[p]))

GetBridges_return(p) == Leave(p, "bridges_loop", BridgesLimit(num[p]))

GetInterfacesInBridge_socket(p, br, vec) ==
  Enumerate(p, "GetInterfacesInBridge", br, vec, "ports_ioctl")

\* strlcpy of the bridge name, ioctl(sock.get(), SIOCDEVPRIVATE, &request) and its test.
GetInterfacesInBridge_ioctl(p) ==
  /\ pc[p] = "ports_ioctl"
  /\ LET r == BRCTL_GET_PORT_LIST(sock[p], Truncate(br_name[p]), ifindices[p],
                                  Capacity) IN
       /\ ifindices' = [ifindices EXCEPT ![p] = r.buf]
       /\ Issued(p, r.rc)
       /\ IF PortListFailed(r.rc)
          THEN Return(p, Call(op[p], br_name[p], <<>>, FALSE))
          ELSE Goto(p, "ports_loop") /\ UNCHANGED <<sock, fdtable>>
  /\ UNCHANGED <<kvars, solo, op, br_name, if_name, ifr_ifindex, num, i, out, out0, gone>>

GetInterfacesInBridge_loop(p) == Loop(p, "ports_loop", PortsLimit)

GetInterfacesInBridge_return(p) == Leave(p, "ports_loop", PortsLimit)

---------------------------------------------------------------------------
(* The environment: eth0 is unplugged (unregister_netdevice), which also   *)
(* takes it out of its bridge.                                             *)

Unplug ==
  /\ devs[EthIndex].live
  /\ devs' = [devs EXCEPT ![EthIndex].live = FALSE]
  /\ ports' = {q \in ports : q.dev # EthIndex}
  /\ Vanish(EthIndex)
  /\ hist' = [q \in Callers |-> <<>>]
  /\ UNCHANGED <<bulk, br_ioctl_hook, rlimit, fdtable, solo, pc, op, br_name, if_name,
                 sock, ifr_ifindex, ifindices, num, i, out, ret, out0, kerr, nreq>>

---------------------------------------------------------------------------
\* The environments a run starts in: the bridge module present or absent, the
\* descriptor limit exhausted or not, and the number of pre-existing bridges.
Environments(bulks) ==
  {[hook |-> TRUE, rlimit |-> FdLimit, bulk |-> b] : b \in bulks}
    \cup {[hook |-> FALSE, rlimit |-> FdLimit, bulk |-> 0],
          [hook |-> TRUE, rlimit |-> 0, bulk |-> 0]}

Start(env, s) ==
  /\ devs = (EthIndex :> [name |-> eth0, bridge |-> FALSE, live |-> TRUE])
  /\ ports = {}
  /\ bulk = env.bulk
  /\ br_ioctl_hook = env.hook
  /\ rlimit = env.rlimit
  /\ fdtable = {}
  /\ solo = s
  /\ pc = [p \in Callers |-> "idle"]
  /\ op = [p \in Callers |-> "none"]
  /\ br_name = [p \in Callers |-> <<>>]
  /\ if_name = [p \in Callers |-> <<>>]
  /\ sock = [p \in Callers |-> -1]
  /\ ifr_ifindex = [p \in Callers |-> 0]
  /\ ifindices = [p \in Callers |-> <<>>]
  /\ num = [p \in Callers |-> 0]
  /\ i = [p \in Callers |-> 0]
  /\ out = [p \in Callers |-> <<>>]
  /\ ret = [p \in Callers |-> FALSE]
  /\ out0 = [p \in Callers |-> <<>>]
  /\ kerr = [p \in Callers |-> FALSE]
  /\ nreq = [p \in Callers |-> 0]
  /\ gone = [p \in Callers |-> {}]
  /\ hist = [p \in Callers |-> <<>>]

\* All callers run concurrently; no bridge or one bridge pre-exists.
Init == \E env \in Environments({0, 1}) : Start(env, "")

\* One caller runs its calls one after the other; the bridges that pre-exist
\* reach up to the enumeration's capacity.
InitSeq == \E env \in Environments({0, MAX_PORTS - 1, MAX_PORTS}) : Start(env, "c1")

Next ==
  \/ \E p \in Callers :
       \/ \E name \in BrNames : createBridge_socket(p, name)
       \/ createBridge_ioctl(p)
       \/ \E name \in BrNames : deleteBridge_socket(p, name)
       \/ deleteBridge_ioctl(p)
       \/ \E br \in BrNames, ifn \in IfNames : addIfaceToBridge_resolve(p, br, ifn)
       \/ addIfaceToBridge_socket(p)
       \/ addIfaceToBridge_ioctl(p)
       \/ \E br \in BrNames, ifn \in IfNames : removeIfaceFromBridge_resolve(p, br, ifn)
       \/ removeIfaceFromBridge_socket(p)
       \/ removeIfaceFromBridge_ioctl(p)
       \/ \E vec \in Vectors : GetBridges_socket(p, vec)
       \/ GetBridges_ioctl(p)
       \/ GetBridges_loop(p)
       \/ GetBridges_return(p)
       \/ \E br \in BrNames, vec \in Vectors : GetInterfacesInBridge_socket(p, br, vec)
       \/ GetInterfacesInBridge_ioctl(p)
       \/ GetInterfacesInBridge_loop(p)
       \/ GetInterfacesInBridge_return(p)
  \/ Unplug

Spec == Init /\ [][Next]_vars

SpecSeq == InitSeq /\ [][Next]_vars

---------------------------------------------------------------------------
(* What the properties speak of.                                           *)

\* Caller p has returned from a call of operation o.
Returned(p, o) == pc[p] = "idle" /\ op[p] = o

Listing(p) == Returned(p, "GetBridges") \/ Returned(p, "GetInterfacesInBridge")

\* What the call added to the vector it was given.
Appended(p) == SubSeq(out[p], Len(out0[p]) + 1, Len(out[p]))

Range(seq) == {seq[k] : k \in 1..Len(seq)}

NonZero(x) == x # 0

\* The indices the kernel enumerated for the call p has returned from, in order.
Enumerated(p) ==
  IF op[p] = "GetBridges"
  THEN SelectSeq(SubSeq(ifindices[p], 1, num[p]), NonZero)
  ELSE SelectSeq(ifindices[p], NonZero)

\* The call before the one p has returned from, and the call before that, as far
\* as the log keeps them.
Prev(p) ==
  IF Len(hist[p]) < 2 THEN Call("none", <<>>, <<>>, FALSE) ELSE hist[p][Len(hist[p]) - 1]

Prev2(p) ==
  IF Len(hist[p]) < 3 THEN Call("none", <<>>, <<>>, FALSE) ELSE hist[p][Len(hist[p]) - 2]

---------------------------------------------------------------------------
(* C1.  As stated: for every valid bridge name n, a successful             *)
(* createBridge(n) immediately followed by GetBridges yields a sequence    *)
(* that contains n, and a successful deleteBridge(n) immediately followed  *)
(* by GetBridges yields one that does not.                                 *)
C1_AsStated ==
  \A p \in Callers :
    Returned(p, "GetBridges") /\ ValidName(Prev(p).br) /\ Prev(p).ret =>
      /\ Prev(p).op = "createBridge" => Prev(p).br \in Range(Appended(p))
      /\ Prev(p).op = "deleteBridge" => Prev(p).br \notin Range(Appended(p))

(* C1, amended: the created name is in the sequence when the bridges that  *)
(* exist, the new one among them, are no more than the enumeration's       *)
(* capacity; the deleted name is never in it.                              *)
C1_WithinCapacity ==
  \A p \in Callers :
    Returned(p, "GetBridges") /\ ValidName(Prev(p).br) /\ Prev(p).ret =>
      /\ Prev(p).op = "createBridge" /\ NumBridges <= MAX_PORTS =>
           ret[p] /\ Prev(p).br \in Range(Appended(p))
      /\ Prev(p).op = "deleteBridge" => Prev(p).br \notin Range(Appended(p))

\* A bridge created as the last one that fits the capacity is listed.
C1_Witness ==
  \E p \in Callers :
    /\ Returned(p, "GetBridges") /\ Prev(p).op = "createBridge" /\ Prev(p).ret
    /\ ValidName(Prev(p).br) /\ NumBridges = MAX_PORTS
    /\ Prev(p).br \in Range(Appended(p))

(* C2.  After a successful createBridge(br) and a successful               *)
(* addIfaceToBridge(br, iface), GetInterfacesInBridge(br) on an empty      *)
(* vector returns true and the vector holds exactly iface; after a         *)
(* successful removeIfaceFromBridge(br, iface), what                       *)
(* GetInterfacesInBridge(br) adds does not contain iface.                  *)
C2_MembersAfterAddAndRemove ==
  \A p \in Callers :
    Returned(p, "GetInterfacesInBridge") /\ Prev(p).br = br_name[p] /\ Prev(p).ret =>
      /\ ( /\ Prev(p).op = "addIfaceToBridge"
           /\ Prev2(p).op = "createBridge" /\ Prev2(p).br = br_name[p]
           /\ out0[p] = <<>> )
           => ret[p] /\ out[p] = <<Prev(p).ifn>>
      /\ Prev(p).op = "removeIfaceFromBridge" => Prev(p).ifn \notin Range(Appended(p))

C2_Witness ==
  \E p \in Callers :
    /\ Returned(p, "GetInterfacesInBridge") /\ Prev(p).br = br_name[p] /\ Prev(p).ret
    /\ Prev(p).op = "addIfaceToBridge"
    /\ Prev2(p).op = "createBridge" /\ Prev2(p).br = br_name[p]
    /\ out[p] = <<eth0>>

(* C3.  addIfaceToBridge and removeIfaceFromBridge whose interface name    *)
(* resolves to index 0 return false without having opened a socket or      *)
(* issued a bridge request.                                                *)
C3_NotFoundIssuesNothing ==
  \A p \in Callers :
    /\ Returned(p, "addIfaceToBridge") \/ Returned(p, "removeIfaceFromBridge")
    /\ ifr_ifindex[p] = 0
    => ~ret[p] /\ nreq[p] = 0 /\ ~kerr[p]

\* eth0 has been unplugged: the call fails on the lookup and the kernel is not asked.
C3_Witness ==
  \E p \in Callers :
    /\ Returned(p, "removeIfaceFromBridge") /\ if_name[p] = eth0
    /\ ifr_ifindex[p] = 0 /\ ~ret[p] /\ nreq[p] = 0

C5_KernelErrorFails ==
  \A p \in Callers : pc[p] = "idle" /\ op[p] # "none" /\ kerr[p] => ~ret[p]

(* C6.  When more bridges exist than the capacity, GetBridges returns true *)
(* and adds exactly MAX_PORTS names; it never adds more than MAX_PORTS.    *)
C6_CappedAtCapacity ==
  \A p \in Callers :
    Returned(p, "GetBridges") =>
      /\ Len(Appended(p)) <= MAX_PORTS
      /\ NumBridges > MAX_PORTS => ret[p] /\ Len(Appended(p)) = MAX_PORTS

C6_Witness ==
  \E p \in Callers :
    /\ Returned(p, "GetBridges") /\ NumBridges > MAX_PORTS
    /\ ret[p] /\ Len(Appended(p)) = MAX_PORTS

(* C7.  The open control sockets are never more than the calls in          *)
(* progress; none is open when no call is in progress.                     *)
C7_HandlesReleased ==
  Cardinality(fdtable) <= Cardinality({p \in Callers : pc[p] # "idle"})

\* A call has returned false after a kernel error, its socket closed, while the
\* other caller holds the only open one.
C7_Witness ==
  \E p, q \in Callers :
    /\ pc[p] = "idle" /\ op[p] # "none" /\ kerr[p] /\ ~ret[p]
    /\ pc[q] # "idle" /\ fdtable = {sock[q]}

(* C8.  As stated: when GetBridges and GetInterfacesInBridge issue their   *)
(* enumeration request, every slot of ifindices[] holds zero.              *)
C8_BufferZeroed ==
  \A p \in Callers :
    pc[p] \in {"bridges_ioctl", "ports_ioctl"} =>
      \A k \in 1..MAX_PORTS : ifindices[p][k] = 0

(* C9.  A listing whose enumeration request was served returns true, and   *)
(* what it adds is the names, in enumeration order, of the enumerated      *)
(* indices except those whose device went away before the loop reached     *)
(* them.                                                                   *)
C9_VanishedSkipped ==
  \A p \in Callers :
    Listing(p) /\ nreq[p] > 0 /\ ~kerr[p] =>
      /\ ret[p]
      /\ LET kept == SelectSeq(Enumerated(p), LAMBDA x : x \notin gone[p])
         IN  Appended(p) = [k \in 1..Len(kept) |-> EverName(kept[k])]

\* One enumerated bridge was deleted by the other caller before its turn, another
\* was resolved.
C9_Witness ==
  \E p \in Callers :
    /\ Returned(p, "GetBridges") /\ ret[p]
    /\ gone[p] # {} /\ Appended(p) # <<>>

(* C10.  GetBridges and GetInterfacesInBridge keep what the vector held    *)
(* before the call at its place, and leave the vector as it was when they  *)
(* return false.                                                           *)
C10_OnlyAppends ==
  \A p \in Callers :
    Listing(p) =>
      /\ Len(out[p]) >= Len(out0[p])
      /\ SubSeq(out[p], 1, Len(out0[p])) = out0[p]
      /\ ~ret[p] => out[p] = out0[p]

C10_Witness ==
  \E p \in Callers :
    /\ Returned(p, "GetInterfacesInBridge") /\ ret[p]
    /\ out0[p] # <<>> /\ Len(out[p]) > Len(out0[p])

====
